---- MODULE Spec2Model ----
(***************************************************************************)
(* Model of the Downloads auto-sorter (src/main.py): the watchdog handler  *)
(* SortingHandler (on_modified, sort_files, get_unique_path, move_file)    *)
(* and main().  File names are sequences of one-character strings, so that *)
(* os.path.splitext, str.lower and the f-string of get_unique_path are     *)
(* computed character by character.  The file system is a function from   *)
(* paths (sequences of names below DOWNLOADS_DIR) to nodes.                *)
(***************************************************************************)
EXTENDS Integers, Sequences, FiniteSets, TLC

VARIABLES
  fs,        \* the tree below DOWNLOADS_DIR: path -> [kind, id]
  deny,      \* root file names whose move the OS refuses (permission error)
  nomk,      \* folder names os.makedirs cannot create
  rootOk,    \* TRUE while os.listdir(DOWNLOADS_DIR) succeeds
  queue,     \* events the observer has queued for the handler
  opc,       \* observer thread: "idle", "scanning", "stopped", "dead"
  err,       \* the exception that ended the observer thread, or "none"
  out,       \* lines printed by the latest rescan
  mpc,       \* main thread: "loop", "join", "exited"
  stopFlag,  \* observer.stop() has been called
  exitStatus,\* process exit status, -1 while running
  ext,       \* external file-system changes so far
  notes      \* notifications delivered so far

vars == <<fs, deny, nomk, rootOk, queue, opc, err, out, mpc, stopFlag,
          exitStatus, ext, notes>>

\* ---------------------------------------------------------------- bounds
MaxExt == 1
MaxEvents == 2

\* ------------------------------------------------------------- constants
DOWNLOADS_DIR == <<>>

EXTENSION_MAP ==
  <<
     [folder_name |-> <<"I","m","a","g","e","s">>,
      extensions |-> {<<".","j","p","g">>,
                     <<".","j","p","e","g">>,
                     <<".","p","n","g">>,
                     <<".","g","i","f">>,
                     <<".","s","v","g">>,
                     <<".","b","m","p">>,
                     <<".","w","e","b","p">>}],
     [folder_name |-> <<"D","o","c","u","m","e","n","t","s">>,
      extensions |-> {<<".","p","d","f">>,
                     <<".","d","o","c","x">>,
                     <<".","d","o","c">>,
                     <<".","t","x","t">>,
                     <<".","x","l","s","x">>,
                     <<".","p","p","t","x">>,
                     <<".","c","s","v">>}],
     [folder_name |-> <<"A","r","c","h","i","v","e","s">>,
      extensions |-> {<<".","z","i","p">>,
                     <<".","r","a","r">>,
                     <<".","7","z">>,
                     <<".","t","a","r">>,
                     <<".","g","z">>}],
     [folder_name |-> <<"V","i","d","e","o">>,
      extensions |-> {<<".","m","p","4">>,
                     <<".","m","o","v">>,
                     <<".","a","v","i">>,
                     <<".","m","k","v">>,
                     <<".","w","m","v">>}],
     [folder_name |-> <<"A","u","d","i","o">>,
      extensions |-> {<<".","m","p","3">>,
                     <<".","w","a","v">>,
                     <<".","f","l","a","c">>,
                     <<".","m","4","a">>}],
     [folder_name |-> <<"E","x","e","c","u","t","a","b","l","e","s">>,
      extensions |-> {<<".","e","x","e">>,
                     <<".","m","s","i">>,
                     <<".","d","m","g">>}]
  >>

\* ------------------------------------------------- string primitives
UpperCase ==
  <<"A","B","C","D","E","F","G","H","I","J","K","L","M",
    "N","O","P","Q","R","S","T","U","V","W","X","Y","Z">>

LowerCase ==
  <<"a","b","c","d","e","f","g","h","i","j","k","l","m",
    "n","o","p","q","r","s","t","u","v","w","x","y","z">>

DigitChars == <<"0","1","2","3","4","5","6","7","8","9">>

\* str.lower() of one character
lowerChar(c) ==
  IF \E i \in 1..Len(UpperCase) : UpperCase[i] = c
    THEN LowerCase[CHOOSE i \in 1..Len(UpperCase) : UpperCase[i] = c]
    ELSE c

\* faulty variant of lower: the case is left as it is
lower_keeps_case(s) == s

\* str.lower()
lower(s) == [i \in 1..Len(s) |-> lowerChar(s[i])]

\* str(counter) inside the f-string
RECURSIVE str(_)
str(n) ==
  IF n < Len(DigitChars)
    THEN <<DigitChars[n + 1]>>
    ELSE str(n \div Len(DigitChars)) \o <<DigitChars[(n % Len(DigitChars)) + 1]>>

\* str.startswith('.')
startswithDot(s) == Len(s) > 0 /\ s[1] = "."

\* str.rfind('.'), 0 when there is none
rfindDot(s) ==
  IF \E i \in 1..Len(s) : s[i] = "."
    THEN CHOOSE i \in 1..Len(s) : s[i] = "." /\ \A j \in (i+1)..Len(s) : s[j] # "."
    ELSE 0

\* os.path.splitext on a bare file name: the extension starts at the last
\* dot, unless only dots precede that dot
splitext(s) ==
  LET d == rfindDot(s) IN
    IF d > 0 /\ \E j \in 1..(d-1) : s[j] # "."
      THEN <<SubSeq(s, 1, d - 1), SubSeq(s, d, Len(s))>>
      ELSE <<s, <<>>>>

\* --------------------------------------------------- os / shutil calls
join(dir, name) == Append(dir, name)

basename(p) == p[Len(p)]

dirname(p) == SubSeq(p, 1, Len(p) - 1)

exists(f, p) == p = DOWNLOADS_DIR \/ p \in DOMAIN f

isdir(f, p) == p = DOWNLOADS_DIR \/ (p \in DOMAIN f /\ f[p].kind = "dir")

listdir(f) == {p[1] : p \in {q \in DOMAIN f : Len(q) = 1}}

\* os.makedirs(target_dir) on a path that does not exist
makedirs(f, p) == [q \in DOMAIN f \cup {p} |-> IF q = p THEN [kind |-> "dir", id |-> 0] ELSE f[q]]

\* shutil.move raises: source gone, destination's parent not a directory,
\* or the OS refuses the move
moveRaises(f, d, src, dst) ==
  \/ src \notin DOMAIN f
  \/ ~isdir(f, dirname(dst))
  \/ basename(src) \in d

\* faulty variant of move: the file is copied and the source is left behind
move_keeps_source(f, src, dst) ==
  [q \in DOMAIN f \cup {dst} |-> IF q = dst THEN f[src] ELSE f[q]]

\* shutil.move(src, dst) when it does not raise: a rename, which replaces
\* a file already at dst
move(f, src, dst) ==
  [q \in (DOMAIN f \ {src}) \cup {dst} |-> IF q = dst THEN f[src] ELSE f[q]]

\* ------------------------------------------------------ SortingHandler
\* the while loop of get_unique_path
RECURSIVE probe(_, _, _, _, _, _)
probe(f, target_dir, base, extension, unique_path, counter) ==
  IF exists(f, unique_path)
    THEN probe(f, target_dir, base, extension,
               join(target_dir, base \o <<"(">> \o str(counter) \o <<")">> \o extension),
               counter + 1)
    ELSE unique_path

\* faulty variant of get_unique_path: the counter starts at 0
get_unique_path_from_zero(f, target_dir, filename) ==
  LET parts == splitext(filename) IN
    probe(f, target_dir, parts[1], parts[2], join(target_dir, filename), 0)

\* faulty variant of get_unique_path: the target is not probed
get_unique_path_unprobed(f, target_dir, filename) == join(target_dir, filename)

get_unique_path(f, target_dir, filename) ==
  LET parts == splitext(filename) IN
    probe(f, target_dir, parts[1], parts[2], join(target_dir, filename), 1)

\* the folders of EXTENSION_MAP whose tuple holds the extension, by position
matching(extension) ==
  {i \in 1..Len(EXTENSION_MAP) : extension \in EXTENSION_MAP[i].extensions}

first(S) == CHOOSE i \in S : \A j \in S : i <= j

Unchanged(f) == [fs |-> f, out |-> <<>>, exc |-> "none"]

\* faulty variant of the try block: no except clause, the failure escapes
try_move_uncaught(f, d, filename, file_path, final_destination) ==
  IF moveRaises(f, d, file_path, final_destination)
    THEN [fs |-> f, out |-> <<>>, exc |-> "move"]
    ELSE [fs |-> move(f, file_path, final_destination),
          out |-> <<[line |-> "moved", filename |-> filename,
                     dest |-> basename(final_destination)]>>,
          exc |-> "none"]

\* the try block of move_file: shutil.move, then the line printed; the
\* except clause prints the failure and swallows it
try_move(f, d, filename, file_path, final_destination) ==
  IF moveRaises(f, d, file_path, final_destination)
    THEN [fs |-> f,
          out |-> <<[line |-> "error", filename |-> filename, dest |-> <<>>]>>,
          exc |-> "none"]
    ELSE [fs |-> move(f, file_path, final_destination),
          out |-> <<[line |-> "moved", filename |-> filename,
                     dest |-> basename(final_destination)]>>,
          exc |-> "none"]

\* move_file: the result is the file system afterwards, the lines printed
\* and the exception that escapes ("none" when move_file returns)
move_file(f, d, nm, filename, file_path) ==
  LET extension == lower(splitext(filename)[2])
      hits == matching(extension)
  IN IF hits = {} THEN Unchanged(f)
     ELSE
       LET folder_name == EXTENSION_MAP[first(hits)].folder_name
           target_dir == join(DOWNLOADS_DIR, folder_name)
       IN IF ~exists(f, target_dir) /\ folder_name \in nm
            THEN [fs |-> f, out |-> <<>>, exc |-> "makedirs"]
            ELSE
              LET f1 == IF exists(f, target_dir) THEN f ELSE makedirs(f, target_dir)
              IN try_move(f1, d, filename, file_path,
                          get_unique_path(f1, target_dir, filename))

\* faulty variant of the loop body: hidden names are not passed over
visit_hidden_too(f, d, nm, filename) ==
  LET file_path == join(DOWNLOADS_DIR, filename) IN
    IF isdir(f, file_path)
      THEN Unchanged(f)
      ELSE move_file(f, d, nm, filename, file_path)

\* one iteration of the for loop of sort_files
visit(f, d, nm, filename) ==
  LET file_path == join(DOWNLOADS_DIR, filename) IN
    IF isdir(f, file_path) \/ startswithDot(filename)
      THEN Unchanged(f)
      ELSE move_file(f, d, nm, filename, file_path)

\* the for loop of sort_files over the names still to visit, in every order
\* os.listdir may return them: the set of possible results.  An entry the
\* loop passes over (a directory, a hidden name, a file of no category) is
\* passed over wherever it comes in the order, so these are dropped at once.
RECURSIVE loop(_, _, _, _, _)
loop(f, d, nm, rest, o) ==
  LET passed == {n \in rest : visit(f, d, nm, n) = Unchanged(f)} IN
    IF rest = {} THEN {[fs |-> f, out |-> o, exc |-> "none"]}
    ELSE IF passed # {} THEN loop(f, d, nm, rest \ passed, o)
    ELSE UNION {LET r == visit(f, d, nm, n) IN
                  IF r.exc # "none"
                    THEN {[fs |-> r.fs, out |-> o \o r.out, exc |-> r.exc]}
                    ELSE loop(r.fs, d, nm, rest \ {n}, o \o r.out)
                : n \in rest}

\* sort_files: os.listdir, then the loop
sort_files(f, d, nm, ok) ==
  IF ~ok THEN {[fs |-> f, out |-> <<>>, exc |-> "listdir"]}
  ELSE loop(f, d, nm, listdir(f), <<>>)

\* FileSystemEventHandler.dispatch calls on_modified for "modified" events;
\* SortingHandler overrides no other callback
callsOnModified(event) == event.event_type = "modified"

\* on_modified calls sort_files
on_modified(event) == ~event.is_directory

\* ---------------------------------------------------------- initial states
aPNG == <<"a",".","P","N","G">>
azip == <<"a",".","z","i","p">>
a1zip == <<"a","(","1",")",".","z","i","p">>
a2zip == <<"a","(","2",")",".","z","i","p">>
szip == <<"s",".","z","i","p">>
hpng == <<".","h",".","p","n","g">>
noext == <<"n">>
nx == <<"n",".","x">>
Images == EXTENSION_MAP[1].folder_name
Archives == EXTENSION_MAP[3].folder_name

File(i) == [kind |-> "file", id |-> i]
Dir == [kind |-> "dir", id |-> 0]

\* entries the sorter must leave alone: a directory named like an archive,
\* a hidden picture, a file without extension, a file of no category
Misc == {<<szip>>, <<hpng>>, <<noext>>, <<nx>>}

\* every node an initial file system may hold
Universe ==
  (<<aPNG>> :> File(1)) @@ (<<azip>> :> File(2)) @@ (<<szip>> :> Dir) @@
  (<<hpng>> :> File(3)) @@ (<<noext>> :> File(4)) @@ (<<nx>> :> File(5)) @@
  (<<Images>> :> Dir) @@ (<<Archives>> :> Dir) @@
  (<<Archives, azip>> :> File(6)) @@ (<<Archives, a1zip>> :> File(7)) @@
  (<<Archives, a2zip>> :> File(8))

\* the id of the first file that arrives later
FirstNewId == Cardinality(DOMAIN Universe) + 1

\* a tree: what lies in a folder needs the folder; Misc comes whole; a
\* numbered archive is there because a.zip was there before it, and the
\* folder Archives is there because something was sorted into it
WellFormed(S) ==
  /\ \A p \in S : Len(p) = 2 => <<p[1]>> \in S
  /\ (Misc \cap S = {} \/ Misc \subseteq S)
  /\ (<<Archives, a1zip>> \in S \/ <<Archives, a2zip>> \in S) => <<Archives, azip>> \in S
  /\ <<Archives>> \in S => <<Archives, azip>> \in S

\* the name Images may be taken by a regular file instead of a folder
InitialFs ==
  UNION {{[p \in S |-> Universe[p]],
          [p \in S |-> IF p = <<Images>> THEN File(9) ELSE Universe[p]]}
         : S \in {T \in SUBSET DOMAIN Universe : WellFormed(T)}}

Events ==
  {[event_type |-> "modified", is_directory |-> FALSE],
   [event_type |-> "modified", is_directory |-> TRUE],
   [event_type |-> "created", is_directory |-> FALSE]}

Arrivals == {azip}

\* faults: a file of the root the OS will not move, a missing folder it
\* will not create
Unmovable == {aPNG}

Uncreatable == {Images}

Init ==
  /\ fs \in InitialFs
  /\ deny \in SUBSET (Unmovable \cap listdir(fs))
  /\ nomk \in SUBSET (Uncreatable \ listdir(fs))
  /\ rootOk = TRUE
  /\ queue = <<>>
  /\ opc = "idle"
  /\ err = "none"
  /\ out = <<>>
  /\ mpc = "loop"
  /\ stopFlag = FALSE
  /\ exitStatus = -1
  /\ ext = 0
  /\ notes = 0

\* --------------------------------------------------------- observer thread
mainVars == <<mpc, stopFlag, exitStatus>>
envVars == <<deny, nomk, rootOk, ext, notes>>

\* The observer thread hands the handler one queued event at a time.  It may
\* already hold an event when observer.stop() is called, so an idle thread
\* with a queued event may still dispatch it, or see the stop request and end.

\* an event no callback of SortingHandler acts on
DispatchIgnored ==
  /\ opc = "idle" /\ queue # <<>>
  /\ ~(callsOnModified(Head(queue)) /\ on_modified(Head(queue)))
  /\ queue' = Tail(queue)
  /\ UNCHANGED <<fs, opc, err, out, mainVars, envVars>>

\* on_modified enters sort_files
DispatchRescan ==
  /\ opc = "idle" /\ queue # <<>>
  /\ callsOnModified(Head(queue)) /\ on_modified(Head(queue))
  /\ queue' = Tail(queue)
  /\ opc' = "scanning"
  /\ out' = <<>>
  /\ UNCHANGED <<fs, err, mainVars, envVars>>

\* sort_files lists the root, runs its loop and returns
SortFilesReturns ==
  /\ opc = "scanning"
  /\ \E r \in sort_files(fs, deny, nomk, rootOk) :
       /\ r.exc = "none"
       /\ fs' = r.fs
       /\ out' = r.out
  /\ opc' = "idle"
  /\ UNCHANGED <<queue, err, mainVars, envVars>>

\* sort_files raises (os.listdir, os.makedirs): nothing catches it, the
\* exception leaves on_modified and ends the observer thread
SortFilesRaises ==
  /\ opc = "scanning"
  /\ \E r \in sort_files(fs, deny, nomk, rootOk) :
       /\ r.exc # "none"
       /\ fs' = r.fs
       /\ out' = r.out
       /\ err' = r.exc
  /\ opc' = "dead"
  /\ UNCHANGED <<queue, mainVars, envVars>>

\* the observer thread sees the stop request between two events and ends
ObserverExit ==
  /\ opc = "idle" /\ stopFlag
  /\ opc' = "stopped"
  /\ UNCHANGED <<fs, queue, err, out, mainVars, envVars>>

\* ------------------------------------------------------------- main thread
\* KeyboardInterrupt in the sleep loop: the except branch calls observer.stop()
Interrupt ==
  /\ mpc = "loop"
  /\ stopFlag' = TRUE
  /\ mpc' = "join"
  /\ UNCHANGED <<fs, queue, opc, err, out, exitStatus, envVars>>

\* faulty variant of Join: main does not wait for the observer thread
Join_without_waiting ==
  /\ mpc = "join"
  /\ mpc' = "exited"
  /\ exitStatus' = 0
  /\ UNCHANGED <<fs, queue, opc, err, out, stopFlag, envVars>>

\* observer.join() returns once the observer thread has ended; main returns
Join ==
  /\ mpc = "join"
  /\ opc \in {"stopped", "dead"}
  /\ mpc' = "exited"
  /\ exitStatus' = 0
  /\ UNCHANGED <<fs, queue, opc, err, out, stopFlag, envVars>>

\* ------------------------------------------------------------- environment
\* the watch facility queues an event for the handler
Notify(e) ==
  /\ ~stopFlag
  /\ notes < MaxEvents
  /\ queue' = Append(queue, e)
  /\ notes' = notes + 1
  /\ UNCHANGED <<fs, opc, err, out, mainVars, deny, nomk, rootOk, ext>>

\* a download lands in the root
ExtArrive(n) ==
  /\ ext < MaxExt
  /\ ~exists(fs, <<n>>)
  /\ fs' = (<<n>> :> File(FirstNewId + ext)) @@ fs
  /\ ext' = ext + 1
  /\ UNCHANGED <<queue, opc, err, out, mainVars, deny, nomk, rootOk, notes>>

\* the root stops being listable, or becomes listable again
ExtRoot ==
  /\ ext < MaxExt
  /\ rootOk' = ~rootOk
  /\ ext' = ext + 1
  /\ UNCHANGED <<fs, queue, opc, err, out, mainVars, deny, nomk, notes>>

Next ==
  \/ DispatchIgnored
  \/ DispatchRescan
  \/ SortFilesReturns
  \/ SortFilesRaises
  \/ ObserverExit
  \/ Interrupt
  \/ Join
  \/ \E e \in Events : Notify(e)
  \/ \E n \in Arrivals : ExtArrive(n)
  \/ ExtRoot

Spec == Init /\ [][Next]_vars

\* ================================================================ claims
\* two characters that are the same letter, whatever their case
SameLetter(a, b) ==
  \/ a = b
  \/ \E k \in 1..Len(UpperCase) :
       \/ a = UpperCase[k] /\ b = LowerCase[k]
       \/ a = LowerCase[k] /\ b = UpperCase[k]

\* the extension of name n is e, compared case-insensitively
HasExt(n, e) ==
  LET x == splitext(n)[2] IN
    Len(x) = Len(e) /\ \A i \in 1..Len(e) : SameLetter(x[i], e[i])

\* the names a root entry can bear in this model
RootNames == {p[1] : p \in {q \in DOMAIN Universe : Len(q) = 1}}

\* the categories that list the extension of each name
CategoryTable ==
  [n \in RootNames |->
     {EXTENSION_MAP[i].folder_name :
        i \in {j \in 1..Len(EXTENSION_MAP) :
                 \E e \in EXTENSION_MAP[j].extensions : HasExt(n, e)}}]

CategoriesOf(n) == CategoryTable[n]

\* a non-hidden regular file of the root with a configured extension
Qualifies(f, n) ==
  /\ <<n>> \in DOMAIN f /\ f[<<n>>].kind = "file"
  /\ ~startswithDot(n)
  /\ CategoriesOf(n) # {}

\* the names placed into folders, and how many files there can ever be
Placeable == RootNames \cup {a1zip}

MostFiles == Cardinality(DOMAIN Universe) + MaxExt

\* base(k).ext for the name base.ext
NumberedTable ==
  [n \in Placeable |->
     [k \in 1..(MostFiles + 1) |->
        splitext(n)[1] \o <<"(">> \o str(k) \o <<")">> \o splitext(n)[2]]]

Numbered(n, k) == NumberedTable[n][k]

\* the names a file called n may bear in its category folder
PlacedNames(f, n) == {n} \cup {Numbered(n, k) : k \in 1..MostFiles}

\* the file that was <root>/n in f is in a folder of its category in g,
\* under its own name or a numbered one, and no longer in the root
Sorted(f, g, n) ==
  /\ <<n>> \notin DOMAIN g
  /\ \E p \in DOMAIN g :
       /\ Len(p) = 2 /\ p[1] \in CategoriesOf(n) /\ p[2] \in PlacedNames(f, n)
       /\ g[p] = f[<<n>>]

Logged(o, kind, n) == \E i \in 1..Len(o) : o[i].line = kind /\ o[i].filename = n

\* this step is sort_files returning
Returning == opc = "scanning" /\ opc' = "idle"

\* C1 as stated: when sort_files returns, every non-hidden regular file of
\* the root with a configured extension (case-insensitive) is in its
\* category folder and gone from the root.
C1_AllQualifyingSorted ==
  [][Returning => \A n \in listdir(fs) : Qualifies(fs, n) => Sorted(fs, fs', n)]_vars

\* C1 amended: when sort_files returns, every such file is in its category
\* folder (name and case kept, or numbered) and gone from the root, unless
\* its move failed: then the failure is logged and the file is still in
\* the root, untouched.
C1_SortedUnlessMoveFailed ==
  [][Returning =>
       \A n \in listdir(fs) : Qualifies(fs, n) =>
         \/ Sorted(fs, fs', n) /\ Logged(out', "moved", n)
         \/ /\ Logged(out', "error", n)
            /\ <<n>> \in DOMAIN fs' /\ fs'[<<n>>] = fs[<<n>>]]_vars

\* a.PNG of the root has been moved to Images/a.PNG by the latest rescan
C1_Witness ==
  /\ opc = "idle"
  /\ out # <<>> /\ \E i \in 1..Len(out) : out[i] = [line |-> "moved", filename |-> aPNG, dest |-> aPNG]
  /\ <<aPNG>> \notin DOMAIN fs
  /\ <<Images, aPNG>> \in DOMAIN fs /\ fs[<<Images, aPNG>>] = File(1)

\* an entry the sorter has no business with: a directory, a hidden name,
\* a name without extension, an extension of no category
Untouchable(f, n) ==
  \/ f[<<n>>].kind = "dir"
  \/ startswithDot(n)
  \/ splitext(n)[2] = <<>>
  \/ CategoriesOf(n) = {}

\* C2: no step removes, renames or replaces a root entry that is a
\* directory (whatever its name), or hidden, or without extension, or of
\* an extension in no category.
C2_UntouchablesStay ==
  [][\A n \in listdir(fs) : Untouchable(fs, n) =>
       <<n>> \in DOMAIN fs' /\ fs'[<<n>>] = fs[<<n>>]]_vars

\* a rescan has moved a.zip while the directory s.zip, the hidden .h.png,
\* n and n.x are all still in the root
C2_Witness ==
  /\ opc = "idle" /\ Logged(out, "moved", azip)
  /\ \A p \in Misc : p \in DOMAIN fs /\ fs[p] = Universe[p]
  /\ <<Archives>> \in DOMAIN fs /\ <<szip>> \in DOMAIN fs

\* the category folders a name may be placed in, and the names placed
Folders == {<<Images>>, <<Archives>>}

Probed == {aPNG, azip, a1zip, noext, hpng}

\* the numbers k for which dir/base(k).ext exists
NumbersUsed(f, dir, n) ==
  {k \in 1..MostFiles : exists(f, join(dir, Numbered(n, k)))}

\* numbered copies of n in dir are 1..m without a gap, next to n itself
GapFree(f, dir, n) ==
  LET used == NumbersUsed(f, dir, n) IN
    /\ used # {} => exists(f, join(dir, n))
    /\ used = 1..Cardinality(used)

\* get_unique_path answers dir/n when that is free, else dir/base(k).ext
\* for the least k >= 1 that is free
LeastFree(f, dir, n) ==
  LET r == get_unique_path(f, dir, n) IN
    /\ ~exists(f, r)
    /\ ~exists(f, join(dir, n)) => r = join(dir, n)
    /\ exists(f, join(dir, n)) =>
         \E k \in 1..(MostFiles + 1) :
           /\ r = join(dir, Numbered(n, k))
           /\ \A j \in 1..(k - 1) : exists(f, join(dir, Numbered(n, j)))

\* C3: in the initial file system and after every step that changes it,
\* get_unique_path(dir, n) is dir/n when free and otherwise dir/base(k).ext
\* for the least free k >= 1; and a folder whose numbered copies of n are
\* gap-free from 1 stays so whatever is placed into it.
C3_LeastFreeNumber ==
  /\ \A dir \in Folders : \A n \in Probed : LeastFree(fs, dir, n)
  /\ [][fs' # fs =>
          \A dir \in Folders : \A n \in Probed :
            /\ LeastFree(fs', dir, n)
            /\ GapFree(fs, dir, n) => GapFree(fs', dir, n)]_vars

\* Archives held a.zip; the a.zip of the root was placed as a(1).zip and
\* the a.zip that arrived later as a(2).zip
C3_Witness ==
  /\ <<Archives, azip>> \in DOMAIN fs /\ fs[<<Archives, azip>>] = File(6)
  /\ <<Archives, a1zip>> \in DOMAIN fs /\ fs[<<Archives, a1zip>>] = File(2)
  /\ <<Archives, a2zip>> \in DOMAIN fs /\ fs[<<Archives, a2zip>>].id >= FirstNewId

\* a second sort_files right after the state g changes nothing, prints
\* nothing and raises nothing
SecondRunNoOp(g) ==
  \A r \in sort_files(g, deny, nomk, rootOk) :
    r.fs = g /\ r.out = <<>> /\ r.exc = "none"

\* C4 as stated: from any state, a second sort_files right after the first
\* moves nothing, creates no folder and reports no error.
C4_SecondRunNoOp ==
  [][Returning => SecondRunNoOp(fs')]_vars

\* C4 amended: when the first sort_files returned without logging a move
\* failure, a second one right after it moves nothing, creates no folder
\* and reports no error.
C4_SecondRunNoOpAfterCleanRun ==
  [][Returning /\ ~(\E i \in 1..Len(out') : out'[i].line = "error")
       => SecondRunNoOp(fs')]_vars

\* a rescan that moved both a.PNG and a.zip, without error, has returned
C4_Witness ==
  /\ opc = "idle"
  /\ Logged(out, "moved", aPNG) /\ Logged(out, "moved", azip)
  /\ ~Logged(out, "error", aPNG) /\ ~Logged(out, "error", azip)

\* C5: a failing move never ends the rescan: no exception of the move
\* leaves sort_files, and when sort_files returns having logged the failure
\* of n, n is still in the root as it was and every other listed qualifying
\* file has been handled, moved to its category unless its own move failed.
C5_MoveFailureSkipsOnlyThatFile ==
  /\ [](err \in {"none", "listdir", "makedirs"})
  /\ [][Returning =>
          \A n \in listdir(fs) : Qualifies(fs, n) /\ Logged(out', "error", n) =>
            /\ <<n>> \in DOMAIN fs' /\ fs'[<<n>>] = fs[<<n>>]
            /\ \A m \in listdir(fs) \ {n} : Qualifies(fs, m) =>
                 \/ Sorted(fs, fs', m) /\ Logged(out', "moved", m)
                 \/ Logged(out', "error", m)]_vars

\* the move of a.PNG failed and was logged, a.PNG is still in the root, and
\* the same rescan went on to move a.zip
C5_Witness ==
  /\ opc = "idle"
  /\ Len(out) = 2
  /\ out[1].line = "error" /\ out[1].filename = aPNG
  /\ out[2].line = "moved" /\ out[2].filename = azip
  /\ <<aPNG>> \in DOMAIN fs /\ <<azip>> \notin DOMAIN fs

\* C6 as stated: a failure to list the root aborts the rescan only, the
\* handler's thread lives on for the next notification.
C6_ListFailureLeavesHandlerAlive ==
  [][opc = "scanning" /\ ~rootOk /\ opc' # opc => opc' = "idle"]_vars

\* C7 as stated: every event handed to the handler starts a rescan.
C7_EveryEventRescans ==
  [][opc = "idle" /\ Len(queue') < Len(queue) => opc' = "scanning"]_vars

\* C8: the process exits only after observer.stop() and after the observer
\* thread has ended, with status 0; a rescan in flight at the interrupt runs
\* to its end first, and once main is past join no rescan starts and the
\* observer thread does nothing more.
C8_StopJoinExit ==
  /\ [](/\ mpc \in {"join", "exited"} => stopFlag
        /\ mpc = "exited" => opc \in {"stopped", "dead"} /\ exitStatus = 0
        /\ mpc # "exited" => exitStatus = -1)
  /\ [][/\ opc' = "scanning" /\ opc # "scanning" => mpc # "exited"
        /\ mpc = "exited" => opc' = opc /\ out' = out
        /\ opc = "scanning" /\ opc' # opc => mpc' = mpc /\ mpc # "exited"]_vars

\* main has exited with status 0 after the observer thread, which had
\* sorted a.zip, ended on the stop request
C8_Witness ==
  /\ mpc = "exited" /\ exitStatus = 0 /\ stopFlag
  /\ opc = "stopped" /\ Logged(out, "moved", azip)

\* C9 as stated: a folder that cannot be created costs only the files of
\* its category: the error does not leave sort_files and the files of other
\* categories listed in the same rescan are still moved.
C9_MkdirFailureContained ==
  [][/\ opc = "scanning" /\ opc' # opc /\ rootOk
     /\ \E n \in listdir(fs) : Qualifies(fs, n) /\ CategoriesOf(n) \cap nomk # {}
     => /\ opc' = "idle"
        /\ \A m \in listdir(fs) :
             Qualifies(fs, m) /\ CategoriesOf(m) \cap nomk = {}
               => Sorted(fs, fs', m) \/ Logged(out', "error", m)]_vars

\* C10: no step overwrites, renames or removes anything inside a folder of
\* the root, and every file is afterwards at exactly one place.
C10_NothingOverwritten ==
  [][/\ \A p \in DOMAIN fs : Len(p) = 2 => p \in DOMAIN fs' /\ fs'[p] = fs[p]
     /\ \A p \in DOMAIN fs : fs[p].kind = "file" =>
          Cardinality({q \in DOMAIN fs' : fs'[q] = fs[p]}) = 1]_vars

\* the a.zip that was in Archives is still there, next to the a.zip of the
\* root, which was placed as a(1).zip
C10_Witness ==
  /\ opc = "idle" /\ Logged(out, "moved", azip)
  /\ <<Archives, azip>> \in DOMAIN fs /\ fs[<<Archives, azip>>] = File(6)
  /\ <<Archives, a1zip>> \in DOMAIN fs /\ fs[<<Archives, a1zip>>] = File(2)
  /\ <<azip>> \notin DOMAIN fs

====
